---- MODULE Spec2Model ----
(***************************************************************************)
(* ts_init: initialisation of a tracing subscriber.                        *)
(*                                                                         *)
(* Strings are sequences of one-character strings, so that replace(),      *)
(* format!() and the parsing of filter directives are computed and not     *)
(* assumed.  A filter is the set of directives the string parses to.       *)
(***************************************************************************)
EXTENDS Integers, Sequences, FiniteSets, TLC

VARIABLES
    env,        \* RUST_LOG: None or Some(string)
    journalUp,  \* whether the journald socket can be opened
    fs,         \* path -> the file there: missing, denied or its records
    slot,       \* the global default dispatcher: None or Some(backend)
    building,   \* the subscriber a builder chain holds: None or Some(backend)
    stderr,     \* records written to standard error
    journal,    \* records sent to journald
    nlogs,      \* number of events emitted so far
    last        \* the last call: its name, arguments and outcome

vars == <<env, journalUp, fs, slot, building, stderr, journal, nlogs, last>>

(***************************************************************************)
(* Bounds                                                                  *)
(***************************************************************************)
MaxOutputs == 3   \* longest outputs vector handed to init_logging
MaxLayers == 2    \* layers a builder chain adds on top of subscriber()
MaxLogs == 2      \* events emitted in one behaviour

(***************************************************************************)
(* Strings                                                                 *)
(***************************************************************************)
s_error == <<"e","r","r","o","r">>
s_warn == <<"w","a","r","n">>
s_info == <<"i","n","f","o">>
s_debug == <<"d","e","b","u","g">>
s_trace == <<"t","r","a","c","e">>
s_app == <<"a","p","p">>
s_lib == <<"l","i","b">>
s_app_debug == <<"a","p","p","=","d","e","b","u","g">>
s_app_bogus == <<"a","p","p","=","b","o","g","u","s">>
s_warn_app_trace == <<"w","a","r","n",",","a","p","p","=","t","r","a","c","e">>
s_my_crate == <<"m","y","-","c","r","a","t","e">>
s_my_bin == <<"m","y","-","b","i","n">>
s_ts_init == <<"t","s","_","i","n","i","t">>
s_app_log == <<"a","p","p",".","l","o","g">>
s_journal == <<"j","o","u","r","n","a","l">>
s_journald == <<"j","o","u","r","n","a","l","d">>

\* Option<T>: None is the empty sequence, Some(x) the sequence <<x>>
None == <<>>
Some(x) == <<x>>

\* str::replace('-', "_")
Replace(s) == [i \in 1..Len(s) |-> IF s[i] = "-" THEN "_" ELSE s[i]]

\* index of the first occurrence of character c in s, 0 when there is none
RECURSIVE Find(_, _, _)
Find(s, c, i) ==
    IF i > Len(s) THEN 0
    ELSE IF s[i] = c THEN i
    ELSE Find(s, c, i + 1)

\* str::split(c)
RECURSIVE Split(_, _)
Split(s, c) ==
    LET k == Find(s, c, 1) IN
    IF k = 0 THEN <<s>>
    ELSE <<SubSeq(s, 1, k - 1)>> \o Split(SubSeq(s, k + 1, Len(s)), c)

\* str::starts_with
StartsWith(s, p) == Len(p) <= Len(s) /\ SubSeq(s, 1, Len(p)) = p

(***************************************************************************)
(* Filter directives (tracing_subscriber::filter::EnvFilter)               *)
(***************************************************************************)
LevelNames == <<s_error, s_warn, s_info, s_debug, s_trace>>
Levels == 1..Len(LevelNames)
INFO == Find(LevelNames, s_info, 1)
ERROR == Find(LevelNames, s_error, 1)
TRACE == Find(LevelNames, s_trace, 1)

\* the characters of a target name: [\w:-]
TargetChars == {"a","b","c","d","e","f","g","h","i","j","k","l","m","n","o",
                "p","q","r","s","t","u","v","w","x","y","z","_",":","-"}

IsTarget(s) == Len(s) > 0 /\ \A i \in 1..Len(s) : s[i] \in TargetChars

BadDirective == [ok |-> FALSE, target |-> <<>>, level |-> 0]
Directive(t, l) == [ok |-> TRUE, target |-> t, level |-> l]

\* Directive::from_str on one clause
ParseDirective(c) ==
    LET k == Find(c, "=", 1)
        t == SubSeq(c, 1, k - 1)
        l == SubSeq(c, k + 1, Len(c))
    IN  IF Find(LevelNames, c, 1) # 0 THEN Directive(<<>>, Find(LevelNames, c, 1))
        ELSE IF k = 0 THEN (IF IsTarget(c) THEN Directive(c, TRACE) ELSE BadDirective)
        ELSE IF ~IsTarget(t) THEN BadDirective
        ELSE IF l = <<>> THEN Directive(t, TRACE)
        ELSE IF Find(LevelNames, l, 1) # 0 THEN Directive(t, Find(LevelNames, l, 1))
        ELSE BadDirective

\* the non-empty clauses of a directive string
Clauses(s) == SelectSeq(Split(s, ","), LAMBDA c : c # <<>>)

\* Result<EnvFilter, _>: dirs is the set of directives of the filter
Err == [ok |-> FALSE, dirs |-> {}]
Ok(dirs) == [ok |-> TRUE, dirs |-> dirs]

\* Builder::parse: all clauses or an error; no default directive
ParseClauses(s) ==
    LET cs == Clauses(s)
        ds == {ParseDirective(cs[i]) : i \in 1..Len(cs)}
    IN  IF \E d \in ds : ~d.ok THEN Err ELSE Ok(ds)

\* parse_lossy and the default directive of EnvFilter::new: invalid clauses
\* are ignored, ERROR when nothing is left
ParseClausesLossy(s) ==
    LET cs == Clauses(s)
        ds == {d \in {ParseDirective(cs[i]) : i \in 1..Len(cs)} : d.ok}
    IN  IF ds = {} THEN {Directive(<<>>, ERROR)} ELSE ds

\* the directive strings of the model, each parsed once
DirectiveStrings ==
    {s_error, s_warn, s_info, s_debug, s_trace, s_app_debug, s_app_bogus,
     s_warn_app_trace, <<>>}
Parsed ==
    [s \in DirectiveStrings |-> [strict |-> ParseClauses(s), lossy |-> ParseClausesLossy(s)]]

ParseStrict(s) == IF s \in DirectiveStrings THEN Parsed[s].strict ELSE ParseClauses(s)
ParseLossy(s) == IF s \in DirectiveStrings THEN Parsed[s].lossy ELSE ParseClausesLossy(s)

\* EnvFilter::try_from_default_env: Err when RUST_LOG is unset or invalid
try_from_default_env(e) == IF e = None THEN Err ELSE ParseStrict(e[1])

\* EnvFilter::enabled: the most specific matching directive decides
FilterEnabled(dirs, target, level) ==
    LET m == {d \in dirs : StartsWith(target, d.target)} IN
    /\ m # {}
    /\ LET best == CHOOSE d \in m : \A o \in m : Len(o.target) <= Len(d.target)
       IN  level <= best.level

(***************************************************************************)
(* Directive Resolver                                                      *)
(***************************************************************************)
env_filter_with_default_swapped(e, default_env) ==
    IF ParseStrict(default_env).ok THEN ParseStrict(default_env).dirs
    ELSE IF try_from_default_env(e).ok THEN try_from_default_env(e).dirs
    ELSE ParseLossy(default_env)

\* layer.rs: env_filter_with_default
env_filter_with_default(e, default_env) ==
    IF try_from_default_env(e).ok
    THEN try_from_default_env(e).dirs
    ELSE ParseLossy(default_env)

\* init_logging: try_from_default_env().unwrap_or_else(|_| parse(default).unwrap());
\* Err stands for the panic of the unwrap
legacy_env_filter(e, default_env) ==
    IF try_from_default_env(e).ok
    THEN try_from_default_env(e)
    ELSE ParseStrict(default_env)

\* ts_init_macros: env_filter_directive!(level); bin is None when
\* CARGO_BIN_NAME is not set
env_filter_directive(level, pkg, bin) ==
    LET b == IF bin = None THEN pkg ELSE bin[1] IN
    IF pkg = b
    THEN Some(pkg \o <<"=">> \o level)
    ELSE Some(pkg \o <<"=">> \o level \o <<",">> \o b \o <<"=">> \o level)

\* src/lib.rs: crate_env!(level); env!("CARGO_BIN_NAME") does not compile
\* when the variable is not set (None)
crate_env(level, pkg, bin) ==
    IF bin = None THEN None
    ELSE Some(Replace(pkg) \o <<"=">> \o level \o <<",">>
              \o Replace(bin[1]) \o <<"=">> \o level)

(***************************************************************************)
(* Files                                                                   *)
(***************************************************************************)
NoFile == [st |-> "missing", data |-> <<>>]
DeniedFile == [st |-> "denied", data |-> <<>>]
File(data) == [st |-> "file", data |-> data]

\* the content a file had before the process started
OldRecord == [level |-> 0, target |-> <<>>]

\* std::fs::OpenOptions
OpenOptions(append, create, truncate) ==
    [append |-> append, create |-> create, truncate |-> truncate]

\* OpenOptions::open: Result<File>, and the file system after the call
Open(fsys, path, opts) ==
    LET f == fsys[path] IN
    IF f.st = "denied" THEN [ok |-> FALSE, fs |-> fsys]
    ELSE IF f.st = "missing"
        THEN IF opts.create
             THEN [ok |-> TRUE, fs |-> [fsys EXCEPT ![path] = File(<<>>)]]
             ELSE [ok |-> FALSE, fs |-> fsys]
    ELSE IF opts.truncate
        THEN [ok |-> TRUE, fs |-> [fsys EXCEPT ![path] = File(<<>>)]]
    ELSE [ok |-> TRUE, fs |-> fsys]

\* io::Write::write_all on a handle whose position is the start of the file
\* unless it was opened with append
Write(fsys, path, rec, opts) ==
    LET d == fsys[path].data IN
    IF opts.append
    THEN [fsys EXCEPT ![path] = File(Append(d, rec))]
    ELSE [fsys EXCEPT ![path] = File(<<rec>> \o SubSeq(d, 2, Len(d)))]

file_appender_options_truncating == OpenOptions(FALSE, TRUE, TRUE)

\* init_logging::file_appender: File::options().append(true).create(true)
file_appender_options == OpenOptions(TRUE, TRUE, FALSE)

\* FileMakeWriter::make_writer: OpenOptions::new().create(true).append(true)
make_writer_options == OpenOptions(TRUE, TRUE, FALSE)

(***************************************************************************)
(* Backends: sinks in dispatch order, and the filters every event passes   *)
(***************************************************************************)
StderrSink == [kind |-> "stderr", path |-> <<>>, ansi |-> TRUE,
               opts |-> OpenOptions(FALSE, FALSE, FALSE), held |-> FALSE]
JournaldSink == [kind |-> "journald", path |-> <<>>, ansi |-> FALSE,
                 opts |-> OpenOptions(FALSE, FALSE, FALSE), held |-> FALSE]
\* held: the handle is opened once, when the sink is built
FileSink(path, ansi, opts, held) ==
    [kind |-> "file", path |-> path, ansi |-> ansi, opts |-> opts, held |-> held]

EnvFilter(dirs) == [kind |-> "env", dirs |-> dirs, max |-> 0]
LevelFilter(max) == [kind |-> "level", dirs |-> {}, max |-> max]

Backend(sinks, filters) == [sinks |-> sinks, filters |-> filters]

\* Layered::enabled: every filter of the stack has to enable the event
Enabled(b, target, level) ==
    \A f \in b.filters :
        IF f.kind = "env" THEN FilterEnabled(f.dirs, target, level)
        ELSE level <= f.max

set_global_default_replacing(sl, b) == [ok |-> TRUE, slot |-> Some(b)]

\* tracing::subscriber::set_global_default: the first call wins
set_global_default(sl, b) ==
    IF sl = None THEN [ok |-> TRUE, slot |-> Some(b)]
    ELSE [ok |-> FALSE, slot |-> sl]

(***************************************************************************)
(* Sink Composer, legacy: init_logging                                     *)
(***************************************************************************)
JournalLiteralShort == s_journal

\* the output name that selects journald
JournalLiteral == s_journald

Plan(sinks, filtered) == [ok |-> TRUE, reason |-> "", sinks |-> sinks, filtered |-> filtered]
Refuse(reason) == [ok |-> FALSE, reason |-> reason, sinks |-> <<>>, filtered |-> FALSE]

LegacyFile(p) == FileSink(p, FALSE, file_appender_options, TRUE)

compose_added(outputs) ==
    IF Len(outputs) = 0 THEN Plan(<<StderrSink>>, TRUE)
    ELSE IF Len(outputs) = 1 THEN
        IF outputs[1] = None THEN Plan(<<StderrSink>>, TRUE)
        ELSE IF outputs[1][1] = JournalLiteral THEN Plan(<<JournaldSink>>, FALSE)
        ELSE Plan(<<StderrSink, LegacyFile(outputs[1][1])>>, TRUE)
    ELSE IF Len(outputs) = 2 THEN
        IF outputs[1] = None /\ outputs[2] # None THEN
            IF outputs[2][1] = JournalLiteral
            THEN Plan(<<StderrSink, JournaldSink>>, TRUE)
            ELSE Plan(<<StderrSink, LegacyFile(outputs[2][1])>>, TRUE)
        ELSE Refuse("Invalid output")
    ELSE Refuse("Too many outputs")

compose_lenient(outputs) ==
    IF Len(outputs) = 0 THEN Plan(<<StderrSink>>, TRUE)
    ELSE IF Len(outputs) = 1 THEN
        IF outputs[1] = None THEN Plan(<<StderrSink>>, TRUE)
        ELSE IF outputs[1][1] = JournalLiteral THEN Plan(<<JournaldSink>>, FALSE)
        ELSE Plan(<<LegacyFile(outputs[1][1])>>, TRUE)
    ELSE IF outputs[1] = None /\ outputs[2] # None THEN
        IF outputs[2][1] = JournalLiteral
        THEN Plan(<<StderrSink, JournaldSink>>, TRUE)
        ELSE Plan(<<StderrSink, LegacyFile(outputs[2][1])>>, TRUE)
    ELSE Plan(<<StderrSink>>, TRUE)

\* init_logging, the match on outputs: the sinks of the subscriber each arm
\* builds, and whether it carries the EnvFilter
compose(outputs) ==
    IF Len(outputs) = 0 THEN Plan(<<StderrSink>>, TRUE)
    ELSE IF Len(outputs) = 1 THEN
        IF outputs[1] = None THEN Plan(<<StderrSink>>, TRUE)
        ELSE IF outputs[1][1] = JournalLiteral THEN Plan(<<JournaldSink>>, FALSE)
        ELSE Plan(<<LegacyFile(outputs[1][1])>>, TRUE)
    ELSE IF Len(outputs) = 2 THEN
        IF outputs[1] = None /\ outputs[2] # None THEN
            IF outputs[2][1] = JournalLiteral
            THEN Plan(<<StderrSink, JournaldSink>>, TRUE)
            ELSE Plan(<<StderrSink, LegacyFile(outputs[2][1])>>, TRUE)
        ELSE Refuse("Invalid output")
    ELSE Refuse("Too many outputs")

\* opens the held handles of the sinks from index i on; stops at the first
\* failure
RECURSIVE OpenHeld(_, _, _)
OpenHeld(fsys, sinks, i) ==
    IF i > Len(sinks) THEN [ok |-> TRUE, fs |-> fsys]
    ELSE IF sinks[i].kind = "file" /\ sinks[i].held
        THEN LET r == Open(fsys, sinks[i].path, sinks[i].opts) IN
             IF r.ok THEN OpenHeld(r.fs, sinks, i + 1) ELSE r
    ELSE OpenHeld(fsys, sinks, i + 1)

NeedsJournald(sinks) == \E i \in 1..Len(sinks) : sinks[i].kind = "journald"

Outcome(outcome, reason, fsys, sl) ==
    [outcome |-> outcome, reason |-> reason, fs |-> fsys, slot |-> sl]

\* init_logging(outputs, env): the outcome of the call, the file system and
\* the global slot after it
init_logging(e, jup, fsys, sl, outputs, default_env) ==
    LET f == legacy_env_filter(e, default_env)
        plan == compose(outputs)
        opened == OpenHeld(fsys, plan.sinks, 1)
        b == Backend(plan.sinks, IF plan.filtered THEN {EnvFilter(f.dirs)} ELSE {})
        set == set_global_default(sl, b)
    IN  IF ~f.ok THEN Outcome("panic", "ParseError", fsys, sl)
        ELSE IF ~plan.ok THEN Outcome("panic", plan.reason, fsys, sl)
        ELSE IF NeedsJournald(plan.sinks) /\ ~jup
            THEN Outcome("panic", "journald", fsys, sl)
        ELSE IF ~opened.ok THEN Outcome("panic", "open", opened.fs, sl)
        ELSE IF ~set.ok THEN Outcome("panic", "SetGlobalDefaultError", opened.fs, sl)
        ELSE Outcome("ok", "", opened.fs, set.slot)

(***************************************************************************)
(* Sink Composer, composable                                               *)
(***************************************************************************)
\* builder(): tracing_subscriber::fmt().with_writer(stderr); the builder
\* starts with the filter LevelFilter::INFO
builder == Backend(<<StderrSink>>, {LevelFilter(INFO)})

\* subscriber(): builder().finish()
subscriber == builder

\* TiSubscriberExt::with_env_filter_or
with_env_filter_or(b, e, default_env) ==
    Backend(b.sinks, b.filters \cup {EnvFilter(env_filter_with_default(e, default_env))})

\* TiSubscriberExt::with_file
with_file(b, path) ==
    Backend(Append(b.sinks, FileSink(path, FALSE, make_writer_options, FALSE)), b.filters)

\* TiSubscriberExt::with_journald: None stands for the panic of the unwrap
with_journald(b, jup) ==
    IF jup THEN Some(Backend(Append(b.sinks, JournaldSink), b.filters)) ELSE None

\* Result<(), TryInitError> or the panic of a call, and the slot after it
Installed(outcome, reason, sl) == [outcome |-> outcome, reason |-> reason, slot |-> sl]

\* try_init(default_env)
try_init(e, sl, default_env) ==
    LET set == set_global_default(sl, with_env_filter_or(subscriber, e, default_env)) IN
    IF set.ok THEN Installed("ok", "", set.slot)
    ELSE Installed("err", "TryInitError", sl)

\* init(default_env): try_init(..).expect(..)
init(e, sl, default_env) ==
    LET r == try_init(e, sl, default_env) IN
    IF r.outcome = "ok" THEN r
    ELSE Installed("panic", "Failed to initialize logging", sl)

(***************************************************************************)
(* Dispatch of one event to the sinks of a backend                         *)
(***************************************************************************)
Streams(fsys, err, jrn, panicked, wrote) ==
    [fs |-> fsys, stderr |-> err, journal |-> jrn, panicked |-> panicked, wrote |-> wrote]

\* fmt::Layer::on_event for the sinks from index i on: make_writer, then
\* write_all; a writer that cannot be made panics and ends the dispatch
RECURSIVE Emit(_, _, _, _)
Emit(sinks, i, st, rec) ==
    IF i > Len(sinks) THEN st
    ELSE LET s == sinks[i] IN
      IF s.kind = "stderr"
        THEN Emit(sinks, i + 1,
                  [st EXCEPT !.stderr = Append(@, rec), !.wrote = @ \cup {i}], rec)
      ELSE IF s.kind = "journald"
        THEN Emit(sinks, i + 1,
                  [st EXCEPT !.journal = Append(@, rec), !.wrote = @ \cup {i}], rec)
      ELSE IF s.held
        THEN Emit(sinks, i + 1,
                  [st EXCEPT !.fs = Write(@, s.path, rec, s.opts), !.wrote = @ \cup {i}], rec)
      ELSE LET r == Open(st.fs, s.path, s.opts) IN
           IF r.ok
           THEN Emit(sinks, i + 1,
                     [st EXCEPT !.fs = Write(r.fs, s.path, rec, s.opts),
                                !.wrote = @ \cup {i}], rec)
           ELSE [st EXCEPT !.panicked = TRUE]

(***************************************************************************)
(* Inputs                                                                  *)
(***************************************************************************)
Paths == {s_app_log, s_journal, s_journald}
Targets == {s_app, s_lib}
EnvValues == {None, Some(s_warn_app_trace), Some(s_app_bogus)}
Defaults == {s_info, s_debug, s_app_bogus}
Entries == {None, Some(s_app_log), Some(s_journal), Some(s_journald)}

SeqsUpTo(S, n) == UNION {[1..k -> S] : k \in 0..n}

\* every vector of at most two entries, and the longer ones over LongEntries
LongEntries == {None, Some(s_journald)}
Outputs ==
    SeqsUpTo(Entries, 2) \cup (SeqsUpTo(LongEntries, MaxOutputs) \ SeqsUpTo(LongEntries, 2))
LegacyDefaults == {s_debug, s_app_bogus}

\* the output vectors of the documentation of init_logging, and the plain ones
SinkOutputs == {<<>>, <<Some(s_app_log)>>, <<None, Some(s_app_log)>>,
                <<None, Some(s_journald)>>, <<Some(s_journald)>>}

FileSystems ==
    {[p \in Paths |-> IF p = s_app_log THEN f ELSE NoFile] :
        f \in {NoFile, DeniedFile, File(<<OldRecord>>)}}

(***************************************************************************)
(* The state machine                                                       *)
(***************************************************************************)
NoCall ==
    [op |-> "", outcome |-> "", reason |-> "", outputs |-> <<>>, default |-> <<>>,
     before |-> None, level |-> 0, target |-> <<>>, wrote |-> {},
     lvl |-> <<>>, pkg |-> <<>>, bin |-> None, str |-> None, filter |-> Err]

Init ==
    /\ env \in EnvValues
    /\ journalUp \in BOOLEAN
    /\ fs \in FileSystems
    /\ slot = None
    /\ building = None
    /\ stderr = <<>>
    /\ journal = <<>>
    /\ nlogs = 0
    /\ last = NoCall

TryInit(default_env) ==
    LET r == try_init(env, slot, default_env) IN
    /\ slot' = r.slot
    /\ last' = [NoCall EXCEPT !.op = "try_init", !.default = default_env,
                              !.before = slot, !.outcome = r.outcome,
                              !.reason = r.reason]
    /\ UNCHANGED <<env, journalUp, fs, building, stderr, journal, nlogs>>

InitCall(default_env) ==
    LET r == init(env, slot, default_env) IN
    /\ slot' = r.slot
    /\ last' = [NoCall EXCEPT !.op = "init", !.default = default_env,
                              !.before = slot, !.outcome = r.outcome,
                              !.reason = r.reason]
    /\ UNCHANGED <<env, journalUp, fs, building, stderr, journal, nlogs>>

InitLogging(outputs, default_env) ==
    LET r == init_logging(env, journalUp, fs, slot, outputs, default_env) IN
    /\ slot' = r.slot
    /\ fs' = r.fs
    /\ last' = [NoCall EXCEPT !.op = "init_logging", !.outputs = outputs,
                              !.default = default_env, !.before = slot,
                              !.outcome = r.outcome, !.reason = r.reason]
    /\ UNCHANGED <<env, journalUp, building, stderr, journal, nlogs>>

\* subscriber(): the start of a builder chain
Subscriber ==
    /\ building = None
    /\ building' = Some(subscriber)
    /\ last' = [NoCall EXCEPT !.op = "subscriber", !.outcome = "ok"]
    /\ UNCHANGED <<env, journalUp, fs, slot, stderr, journal, nlogs>>

Layers(b) == (Len(b.sinks) - 1) + (Cardinality(b.filters) - 1)

WithFile(path) ==
    /\ building # None
    /\ Layers(building[1]) < MaxLayers
    /\ building' = Some(with_file(building[1], path))
    /\ last' = [NoCall EXCEPT !.op = "with_file", !.outcome = "ok"]
    /\ UNCHANGED <<env, journalUp, fs, slot, stderr, journal, nlogs>>

WithJournald ==
    /\ building # None
    /\ Layers(building[1]) < MaxLayers
    /\ building' = with_journald(building[1], journalUp)
    /\ last' = [NoCall EXCEPT !.op = "with_journald",
                              !.outcome = IF building' = None THEN "panic" ELSE "ok",
                              !.reason = IF building' = None THEN "journald" ELSE ""]
    /\ UNCHANGED <<env, journalUp, fs, slot, stderr, journal, nlogs>>

\* the .init() that ends a chain: set_global_default(..).expect(..)
ChainInit ==
    /\ building # None
    /\ LET set == set_global_default(slot, building[1]) IN
        /\ slot' = set.slot
        /\ last' = [NoCall EXCEPT !.op = "chain_init", !.before = slot,
                                  !.outcome = IF set.ok THEN "ok" ELSE "panic",
                                  !.reason = IF set.ok THEN "" ELSE "SetGlobalDefaultError"]
    /\ building' = None
    /\ UNCHANGED <<env, journalUp, fs, stderr, journal, nlogs>>

\* an event of the given level and target, dispatched to the global default
LogEvent(level, target) ==
    /\ nlogs < MaxLogs
    /\ nlogs' = nlogs + 1
    /\ LET rec == [level |-> level, target |-> target]
           st0 == Streams(fs, stderr, journal, FALSE, {})
           st == IF slot # None /\ Enabled(slot[1], target, level)
                 THEN Emit(slot[1].sinks, 1, st0, rec)
                 ELSE st0
       IN  /\ fs' = st.fs
           /\ stderr' = st.stderr
           /\ journal' = st.journal
           /\ last' = [NoCall EXCEPT !.op = "log", !.level = level, !.target = target,
                                     !.before = slot, !.wrote = st.wrote,
                                     !.outcome = IF st.panicked THEN "panic" ELSE "ok"]
    /\ UNCHANGED <<env, journalUp, slot, building>>

Next ==
    \/ \E d \in Defaults : TryInit(d)
    \/ \E d \in Defaults : InitCall(d)
    \/ \E o \in Outputs, d \in LegacyDefaults : InitLogging(o, d)

Spec == Init /\ [][Next]_vars

(***************************************************************************)
(* File and journal sinks: the legacy vectors that name them, the builder  *)
(* chains over with_file and with_journald, and events through them        *)
(***************************************************************************)
SinkDefaults == {s_debug}
SinkPaths == {s_app_log}
SinkEvents == {<<ERROR, s_app>>, <<Find(LevelNames, s_debug, 1), s_app>>}

InitSinks ==
    /\ env = None
    /\ journalUp \in BOOLEAN
    /\ fs \in FileSystems
    /\ slot = None
    /\ building = None
    /\ stderr = <<>>
    /\ journal = <<>>
    /\ nlogs = 0
    /\ last = NoCall

NextSinks ==
    \/ \E o \in SinkOutputs, d \in SinkDefaults : InitLogging(o, d)
    \/ Subscriber
    \/ \E p \in SinkPaths : WithFile(p)
    \/ WithJournald
    \/ ChainInit
    \/ \E e \in SinkEvents : LogEvent(e[1], e[2])

SpecSinks == InitSinks /\ [][NextSinks]_vars

(***************************************************************************)
(* Filtering: try_init and init, and events of every level and target      *)
(***************************************************************************)
InitFilter ==
    /\ env \in EnvValues
    /\ journalUp = FALSE
    /\ fs = [p \in Paths |-> NoFile]
    /\ slot = None
    /\ building = None
    /\ stderr = <<>>
    /\ journal = <<>>
    /\ nlogs = 0
    /\ last = NoCall

NextFilter ==
    \/ \E d \in Defaults : TryInit(d)
    \/ \E d \in Defaults : InitCall(d)
    \/ \E l \in Levels, t \in Targets : LogEvent(l, t)

SpecFilter == InitFilter /\ [][NextFilter]_vars

(***************************************************************************)
(* The directive resolver and the macros as functions of their inputs      *)
(***************************************************************************)
DirectiveEnvValues ==
    {None, Some(s_warn_app_trace), Some(s_app_bogus), Some(s_trace), Some(s_app_debug)}
DirectiveDefaults == {s_info, s_debug, s_app_debug, s_app_bogus, s_warn_app_trace}
MacroLevels == {s_info, s_debug, s_trace}
Packages == {s_my_crate, s_ts_init, s_app}
Binaries == {None, Some(s_my_crate), Some(s_my_bin), Some(s_app)}

InitDirective ==
    /\ env \in DirectiveEnvValues
    /\ journalUp = FALSE
    /\ fs = [p \in Paths |-> NoFile]
    /\ slot = None
    /\ building = None
    /\ stderr = <<>>
    /\ journal = <<>>
    /\ nlogs = 0
    /\ last = NoCall

EnvFilterWithDefault(default_env) ==
    /\ last' = [NoCall EXCEPT !.op = "env_filter_with_default", !.default = default_env,
                              !.outcome = "ok",
                              !.filter = Ok(env_filter_with_default(env, default_env))]
    /\ UNCHANGED <<env, journalUp, fs, slot, building, stderr, journal, nlogs>>

\* the filter init_logging resolves, before it looks at outputs
LegacyEnvFilter(default_env) ==
    LET f == legacy_env_filter(env, default_env) IN
    /\ last' = [NoCall EXCEPT !.op = "legacy_env_filter", !.default = default_env,
                              !.outcome = IF f.ok THEN "ok" ELSE "panic",
                              !.filter = f]
    /\ UNCHANGED <<env, journalUp, fs, slot, building, stderr, journal, nlogs>>

EnvFilterDirective(level, pkg, bin) ==
    /\ last' = [NoCall EXCEPT !.op = "env_filter_directive", !.lvl = level,
                              !.pkg = pkg, !.bin = bin, !.outcome = "ok",
                              !.str = env_filter_directive(level, pkg, bin)]
    /\ UNCHANGED <<env, journalUp, fs, slot, building, stderr, journal, nlogs>>

CrateEnv(level, pkg, bin) ==
    LET r == crate_env(level, pkg, bin) IN
    /\ last' = [NoCall EXCEPT !.op = "crate_env", !.lvl = level,
                              !.pkg = pkg, !.bin = bin,
                              !.outcome = IF r = None THEN "compile_error" ELSE "ok",
                              !.str = r]
    /\ UNCHANGED <<env, journalUp, fs, slot, building, stderr, journal, nlogs>>

NextDirective ==
    \/ \E d \in DirectiveDefaults : EnvFilterWithDefault(d)
    \/ \E d \in DirectiveDefaults : LegacyEnvFilter(d)
    \/ \E l \in MacroLevels, p \in Packages, b \in Binaries : EnvFilterDirective(l, p, b)
    \/ \E l \in MacroLevels, p \in Packages, b \in Binaries : CrateEnv(l, p, b)

SpecDirective == InitDirective /\ [][NextDirective]_vars

(***************************************************************************)
(* Properties                                                              *)
(***************************************************************************)
InstallOps == {"try_init", "init", "init_logging"}

\* C1: installation is one-shot.  A call that installs found the slot empty;
\* a call made when a backend is installed leaves that backend in the slot
\* and fails: try_init with an error value, init and init_logging with a
\* panic; try_init never panics; a failed call never changes the slot.
C1_OneShotInstall ==
    last.op \in InstallOps =>
        /\ last.outcome = "ok" => (last.before = None /\ slot # None)
        /\ last.outcome # "ok" => slot = last.before
        /\ last.before # None =>
            /\ slot = last.before
            /\ last.outcome = IF last.op = "try_init" THEN "err" ELSE "panic"
        /\ last.op = "try_init" => last.outcome # "panic"

C1_Witness ==
    /\ last.op = "try_init"
    /\ last.before # None
    /\ last.outcome = "err"
    /\ slot = last.before

\* the directive set RUST_LOG parses to, when it is set and valid
EnvValid == env # None /\ ParseClauses(env[1]).ok

ResolveOps == {"env_filter_with_default", "legacy_env_filter"}

\* C2: the resolved filter is the one RUST_LOG parses to whenever RUST_LOG is
\* set and valid, whatever the default; it is the one the default parses to
\* whenever RUST_LOG is unset or invalid and the default is valid.
C2_EnvBeforeDefault ==
    last.op \in ResolveOps =>
        /\ EnvValid => last.filter = ParseClauses(env[1])
        /\ (~EnvValid /\ ParseClauses(last.default).ok) =>
                last.filter = ParseClauses(last.default)

C2_Witness ==
    /\ last.op = "env_filter_with_default"
    /\ env = Some(s_warn_app_trace)
    /\ last.default = s_debug
    /\ last.filter = Ok({Directive(<<>>, 2), Directive(s_app, 5)})

BadShape(o) == Len(o) >= 3 \/ (Len(o) = 2 /\ ~(o[1] = None /\ o[2] # None))

\* C3: init_logging with two entries that are not (None, Some) or with three
\* or more entries panics with a configuration error and leaves the slot as
\* it was.
C3_BadShapeRefused ==
    (last.op = "init_logging" /\ BadShape(last.outputs)) =>
        /\ last.outcome = "panic"
        /\ last.reason \in {"Invalid output", "Too many outputs", "ParseError"}
        /\ slot = last.before

C3_Witness ==
    /\ last.op = "init_logging"
    /\ last.outputs = <<Some(s_app_log), None>>
    /\ last.outcome = "panic"
    /\ last.reason = "Invalid output"
    /\ slot = None

\* an entry the code takes for a file path
IsPath(e) == e # None /\ e[1] # s_journald

IsFileSinkAt(s, p) ==
    /\ s.kind = "file"
    /\ s.path = p
    /\ ~s.ansi
    /\ s.opts.append /\ s.opts.create /\ ~s.opts.truncate

\* C4: the sinks init_logging installs for vectors without journald: [] and
\* [None] give standard error alone; [path] gives the file alone; [None, path]
\* gives standard error and the file; every file sink has ANSI colours off,
\* is opened with append and create, and its file exists after the call.
C4_SinksOfOutputs ==
    (last.op = "init_logging" /\ last.outcome = "ok") =>
        LET o == last.outputs
            sinks == slot[1].sinks
        IN  /\ o \in {<<>>, <<None>>} => sinks = <<StderrSink>>
            /\ (Len(o) = 1 /\ IsPath(o[1])) =>
                /\ Len(sinks) = 1
                /\ IsFileSinkAt(sinks[1], o[1][1])
                /\ fs[o[1][1]].st = "file"
            /\ (Len(o) = 2 /\ IsPath(o[2])) =>
                /\ Len(sinks) = 2
                /\ sinks[1] = StderrSink
                /\ IsFileSinkAt(sinks[2], o[2][1])
                /\ fs[o[2][1]].st = "file"

C4_Witness ==
    /\ last.op = "init_logging"
    /\ last.outcome = "ok"
    /\ last.outputs = <<None, Some(s_app_log)>>
    /\ Len(slot[1].sinks) = 2
    /\ fs[s_app_log].st = "file"

\* C5 as stated: the vector ["journal"] installs the journal sink alone and
\* [None, "journal"] installs standard error and the journal sink.
C5_JournalNamedJournal ==
    (last.op = "init_logging" /\ last.outcome = "ok") =>
        /\ last.outputs = <<Some(s_journal)>> => slot[1].sinks = <<JournaldSink>>
        /\ last.outputs = <<None, Some(s_journal)>> =>
                slot[1].sinks = <<StderrSink, JournaldSink>>

\* C5: the name that selects the journal sink is "journald".  ["journald"]
\* installs the journal sink alone, without a filter; [None, "journald"]
\* installs standard error and the journal sink; "journal" is a file path.
C5_JournalNamedJournald ==
    (last.op = "init_logging" /\ last.outcome = "ok") =>
        /\ last.outputs = <<Some(s_journald)>> =>
                slot[1] = Backend(<<JournaldSink>>, {})
        /\ last.outputs = <<None, Some(s_journald)>> =>
                slot[1].sinks = <<StderrSink, JournaldSink>>
        /\ last.outputs = <<Some(s_journal)>> =>
                (Len(slot[1].sinks) = 1 /\ IsFileSinkAt(slot[1].sinks[1], s_journal))

C5_Witness ==
    /\ last.op = "init_logging"
    /\ last.outcome = "ok"
    /\ last.outputs = <<Some(s_journald)>>
    /\ slot[1].sinks = <<JournaldSink>>

IsPrefix(a, b) == Len(a) <= Len(b) /\ SubSeq(b, 1, Len(a)) = a

\* the files of the file sinks of b that are listed in idx
SinkFiles(b, idx) ==
    {b.sinks[i].path : i \in {j \in idx : b.sinks[j].kind = "file"}}

\* C6: no step of any initialisation or event shortens or rewrites a log
\* file: a file that exists stays a file, and its content before the step is a
\* prefix of its content after it; and the file of a sink that init_logging
\* installed, or that an event was written to, exists.
C6_AppendOnly ==
    /\ [][\A p \in Paths :
            fs[p].st = "file" =>
                (fs'[p].st = "file" /\ IsPrefix(fs[p].data, fs'[p].data))]_vars
    /\ [](/\ (last.op = "init_logging" /\ last.outcome = "ok") =>
                \A p \in SinkFiles(slot[1], 1..Len(slot[1].sinks)) : fs[p].st = "file"
          /\ (last.op = "log" /\ last.before # None) =>
                \A p \in SinkFiles(last.before[1], last.wrote) :
                    /\ fs[p].st = "file"
                    /\ fs[p].data[Len(fs[p].data)] = [level |-> last.level,
                                                      target |-> last.target])

C6_Witness ==
    /\ last.op = "log"
    /\ last.wrote # {}
    /\ Len(fs[s_app_log].data) >= 2
    /\ fs[s_app_log].data[1] = OldRecord

\* what package_directive is specified to yield
PackageDirective(level, pkg, bin) ==
    LET p == Replace(pkg)
        b == Replace(bin)
    IN  IF p = b
        THEN p \o <<"=">> \o level
        ELSE p \o <<"=">> \o level \o <<",">> \o b \o <<"=">> \o level

\* C7 as stated: both macros replace '-' by '_' in the package and the binary
\* name and yield "<package>=<level>" when the two are equal and
\* "<package>=<level>,<binary>=<level>" otherwise.
C7_PackageDirective ==
    (last.op \in {"env_filter_directive", "crate_env"} /\ last.outcome = "ok") =>
        last.str = Some(PackageDirective(last.lvl, last.pkg,
                                         IF last.bin = None THEN last.pkg ELSE last.bin[1]))

\* C8 as stated: with RUST_LOG unset or invalid and a default that does not
\* parse, every installing call panics and installs nothing.
C8_MalformedDefaultFatal ==
    (/\ last.op \in InstallOps
     /\ ~EnvValid
     /\ ~ParseClauses(last.default).ok) =>
        (last.outcome = "panic" /\ slot = last.before)

HasPerWriteFile(b) ==
    \E i \in 1..Len(b.sinks) : b.sinks[i].kind = "file" /\ ~b.sinks[i].held

\* C9 as stated: with_journald and with_file never panic, and neither does an
\* event written through a with_file sink.
C9_ComposableNeverPanics ==
    /\ last.op \in {"with_journald", "with_file"} => last.outcome # "panic"
    /\ (last.op = "log" /\ last.before # None /\ HasPerWriteFile(last.before[1])) =>
            last.outcome # "panic"

\* C10 as stated: once try_init or init has installed its backend, an event
\* is written to standard error exactly when the resolved directive enables
\* it.
C10_StderrFollowsDirective ==
    (last.op = "log" /\ last.before # None) =>
        LET f == CHOOSE f \in last.before[1].filters : f.kind = "env" IN
        (last.wrote # {}) <=> FilterEnabled(f.dirs, last.target, last.level)

====
